---- MODULE Spec2Model ----
(***************************************************************************)
(* A model of app.py (YieldMapper): the symbol caches, the symbol          *)
(* resolvers, the dividend aggregation for market A, the HKD/CNY rate      *)
(* lookup, the /api/search orchestrator and the watchlist mutations.       *)
(*                                                                         *)
(* Conventions.                                                            *)
(*  - A Python string is a sequence of one-character strings.              *)
(*  - A Python None / value is None (<<>>) / Some(v) (<<v>>).              *)
(*  - Wall-clock time (time.time(), mtime) is in seconds.                  *)
(*  - Money and rates are integers in units of 10^-7, so that              *)
(*    round(x, 6) is a real rounding (RoundDiv6).                          *)
(*  - An upstream (akshare) call is an input: each call draws one of the   *)
(*    outcomes the provider can produce, "raise" included.                 *)
(***************************************************************************)
EXTENDS Integers, Sequences, FiniteSets, TLC

VARIABLES
    now,        \* time.time() / datetime.now(), seconds
    fileA,      \* CACHE_FILE_A on disk
    fileHK,     \* CACHE_FILE_HK on disk
    out,        \* the /api/search request being answered (None when idle)
    fx,         \* one call of get_hkd_cny_rate: position, what upstream gave, result
    hist,       \* the history ak.stock_dividend_cninfo hands to get_a_dividend
    divOut,     \* what get_a_dividend returned (None before the call)
    dataFile,   \* DATA_FILE on disk
    wreq,       \* the watchlist requests: position, operation, the loaded document
    lastSave,   \* the last completed save_data: what it replaced, what it wrote
    cfile,      \* a cache file, as the bytes concurrent loaders see
    procs,      \* concurrent cache-loader calls: position, local variables
    rmarket     \* the market those calls are for

searchVars == <<now, fileA, fileHK, out>>
rateVars == <<fx>>
divVars == <<hist, divOut>>
watchVars == <<dataFile, wreq, lastSave>>
raceVars == <<cfile, procs, rmarket>>

vars == <<now, fileA, fileHK, out, fx, hist, divOut, dataFile, wreq, lastSave,
          cfile, procs, rmarket>>

-----------------------------------------------------------------------------
(* Optional values and strings *)

None == <<>>
Some(v) == <<v>>
IsSome(o) == Len(o) = 1
Get(o) == o[1]

Digits == {"0", "1", "2", "3", "4", "5", "6", "7", "8", "9"}

\* str.isdigit(): non-empty and every character a digit
IsDigit(s) == Len(s) > 0 /\ \A i \in 1..Len(s) : s[i] \in Digits

\* `q in s` / Series.str.contains(q, regex=False): q is a substring of s
Contains(s, q) ==
    \E i \in 0..(Len(s) - Len(q)) : SubSeq(s, i + 1, i + Len(q)) = q

\* str.zfill(w) for unsigned strings: left-pad with "0" to width w
RECURSIVE Zfill(_, _)
Zfill(s, w) == IF Len(s) >= w THEN s ELSE Zfill(<<"0">> \o s, w)

RECURSIVE LStrip(_)
LStrip(s) == IF Len(s) > 0 /\ s[1] = " " THEN LStrip(Tail(s)) ELSE s

RECURSIVE RStrip(_)
RStrip(s) ==
    IF Len(s) > 0 /\ s[Len(s)] = " " THEN RStrip(SubSeq(s, 1, Len(s) - 1)) ELSE s

\* str.strip()
Strip(s) == RStrip(LStrip(s))

\* round(x / d, 6) for x held in units of 10^-7, the result in the same units
\* (no input of the model is a tie)
RoundDiv6(x, d) == ((x + 5 * d) \div (10 * d)) * 10

-----------------------------------------------------------------------------
(* Time and the cache files *)

MaxTicks == 2
TickSeconds == 12 * 3600
CACHE_TTL == 24 * 3600

AbsentFile == [exists |-> FALSE, mtime |-> 0, rows |-> <<>>]

\* open(path, 'w') + json.dump(records) + close, seen from one process
WriteCache(rows, t) == [exists |-> TRUE, mtime |-> t, rows |-> rows]

CacheValid_Inclusive(f, t) == f.exists /\ (t - f.mtime) <= CACHE_TTL

\* os.path.exists(path) and time.time() - os.path.getmtime(path) < CACHE_TTL
CacheValid(f, t) == f.exists /\ (t - f.mtime) < CACHE_TTL

-----------------------------------------------------------------------------
(* The upstream provider, as far as the resolvers see it *)

Code600519 == <<"6", "0", "0", "5", "1", "9">>
Code000001 == <<"0", "0", "0", "0", "0", "1">>
Code300750 == <<"3", "0", "0", "7", "5", "0">>
Code999999 == <<"9", "9", "9", "9", "9", "9">>

RowA1 == [code |-> Code600519, name |-> <<"A", "B">>]
RowA2 == [code |-> Code000001, name |-> <<"A", "C">>]

\* what ak.stock_zh_a_spot_em() can return, projected to (code, name)
SnapshotsA == {<<RowA1, RowA2>>, <<RowA2, RowA1>>}

\* codes the single-security endpoint of market A knows
ListedA == {Code600519, Code300750}

\* names the single-security endpoint can report
LiveNamesA == {<<"A", "B">>, <<"L">>}

CodeHK00700 == <<"0", "0", "7", "0", "0">>
CodeHK00005 == <<"0", "0", "0", "0", "5">>
CodeHK99999 == <<"9", "9", "9", "9", "9">>

RowH1 == [code |-> CodeHK00700, name |-> <<"T", "C">>]
RowH2 == [code |-> CodeHK00005, name |-> <<"T", "H">>]

\* what stock_hk_spot_em() / stock_hk_main_board_spot_em() can return
SnapshotsHK == {<<RowH1, RowH2>>, <<RowH2, RowH1>>}

\* codes of existing HK securities
ListedHK == {CodeHK00700}

LiveNamesHK == {<<"T", "C">>, <<"T", "L">>}

\* a quoted price (12.5), units of 10^-7
Prices == {125000000}

\* request bodies: the 'query' field, before strip()
RawQueriesA ==
    {<<>>, <<" ">>, Code600519, Code000001, Code300750, Code999999,
     <<"A">>, <<"C">>, <<"Z">>, <<" ", "A", " ">>}

RawQueriesHK ==
    {<<"7", "0", "0">>, CodeHK00700, CodeHK99999, <<"T">>, <<"H">>, <<"Z">>,
     <<"T", " ">>}

-----------------------------------------------------------------------------
(* Symbol cache: _load_a_cache, _load_hk_cache *)

\* ak.stock_zh_a_spot_em(): a snapshot, or an exception
SpotA ==
    {[k |-> "raise", rows |-> <<>>]} \cup {[k |-> "ok", rows |-> s] : s \in SnapshotsA}

\* one HK snapshot endpoint: a usable table, an unusable one (None, empty,
\* no '代码' column), or an exception
SpotHK ==
    {[k |-> "raise", rows |-> <<>>], [k |-> "unusable", rows |-> <<>>]}
        \cup {[k |-> "ok", rows |-> s] : s \in SnapshotsHK}

\* what one call of a cache loader did: st "ret"/"raise", the table returned,
\* the file afterwards, the outcome of each upstream snapshot call it made (in
\* order), and whether it wrote the file
LoadResult(st, rows, f, calls, wrote) ==
    [st |-> st, rows |-> rows, file |-> f, calls |-> calls, wrote |-> wrote]

\* the refetch branch of _load_a_cache, given the upstream outcome
RefetchA(f, t, up) ==
    IF up.k = "raise"
    THEN LoadResult("raise", <<>>, f, <<up.k>>, FALSE)
    ELSE LoadResult("ret", up.rows, WriteCache(up.rows, t), <<up.k>>, TRUE)

\* _load_a_cache(): every outcome of one call on file f at time t
LoadACache(f, t) ==
    IF CacheValid(f, t)
    THEN {LoadResult("ret", f.rows, f, <<>>, FALSE)}
    ELSE {RefetchA(f, t, up) : up \in SpotA}

\* the for-loop of _load_hk_cache over the two endpoints
RefetchHK(f, t, u1, u2) ==
    IF u1.k = "ok"
    THEN LoadResult("ret", u1.rows, WriteCache(u1.rows, t), <<u1.k>>, TRUE)
    ELSE IF u2.k = "ok"
         THEN LoadResult("ret", u2.rows, WriteCache(u2.rows, t), <<u1.k, u2.k>>, TRUE)
         ELSE LoadResult("ret", <<>>, f, <<u1.k, u2.k>>, FALSE)

\* _load_hk_cache(): every outcome of one call on file f at time t
LoadHKCache(f, t) ==
    IF CacheValid(f, t)
    THEN {LoadResult("ret", f.rows, f, <<>>, FALSE)}
    ELSE {RefetchHK(f, t, u1, u2) : u1 \in SpotHK, u2 \in SpotHK}

-----------------------------------------------------------------------------
(* Market A resolver: _get_a_stock_by_code, search_a_stock *)

Info(symbol, name, price) ==
    [symbol |-> symbol, name |-> name, current_price |-> price]

NoInfo == Info(<<>>, <<>>, None)

\* _get_a_stock_by_code(code): the dict it returns, or an exception
GetAStockByCode(code) ==
    {[k |-> "raise", info |-> NoInfo]}
        \cup (IF code \in ListedA
              THEN {[k |-> "ok", info |-> Info(code, n, p)] :
                        n \in LiveNamesA, p \in {None} \cup {Some(x) : x \in Prices}}
              ELSE {})

MatchA_NameOnly(rows, q) == SelectSeq(rows, LAMBDA r : Contains(r.name, q))

\* stock_list[(code == query) | name.str.contains(query)], in cache order
MatchA(rows, q) == SelectSeq(rows, LAMBDA r : r.code = q \/ Contains(r.name, q))

\* what a resolver hands back, with what it did on the way:
\*   info  the returned dict (None: not found)     file  the cache file after
\*   load  the cache loader's outcome, if called   match the matched cache row
\*   fast  the direct-code attempt (skip/raise/ok) live  the lookup after a match
Resolved(info, f, load, match, fast, live) ==
    [info |-> info, file |-> f, load |-> load, match |-> match,
     fast |-> fast, live |-> live]

\* lines 115-134 of search_a_stock, given the loader's outcome
CachePathA(q, ld, fast) ==
    IF ld.st = "raise"
    THEN {Resolved(None, ld.file, Some(ld), None, fast, "none")}
    ELSE LET matched == MatchA(ld.rows, q) IN
         IF matched = <<>>
         THEN {Resolved(None, ld.file, Some(ld), None, fast, "none")}
         ELSE LET code == matched[1].code
                  name == matched[1].name
              IN  {IF r.k = "ok"
                   THEN Resolved(Some([r.info EXCEPT !.name = name]), ld.file,
                                 Some(ld), Some(matched[1]), fast, "ok")
                   ELSE Resolved(Some(Info(code, name, None)), ld.file,
                                 Some(ld), Some(matched[1]), fast, "raise") :
                       r \in GetAStockByCode(code)}

\* search_a_stock(query): every outcome on cache file f at time t
SearchAStock(q, f, t) ==
    LET direct == IF IsDigit(q) THEN GetAStockByCode(q) ELSE {}
        fast   == IF IsDigit(q) THEN "raise" ELSE "skip"
    IN  {Resolved(Some(r.info), f, None, None, "ok", "none") :
             r \in {x \in direct : x.k = "ok"}}
        \cup (IF ~IsDigit(q) \/ (\E r \in direct : r.k = "raise")
              THEN UNION {CachePathA(q, ld, fast) : ld \in LoadACache(f, t)}
              ELSE {})

-----------------------------------------------------------------------------
(* Market HK resolver: _get_hk_stock_by_code, search_hk_stock *)

HKCodeWidth == 5

\* ak.stock_hk_security_profile_em(symbol): a name, an empty table, or an exception
ProfileHK(code) ==
    {[k |-> "raise", name |-> <<>>], [k |-> "empty", name |-> <<>>]}
        \cup (IF code \in ListedHK
              THEN {[k |-> "ok", name |-> n] : n \in LiveNamesHK}
              ELSE {})

\* ak.stock_hk_daily / ak.stock_hk_hist: a last close, an empty table, or an exception
QuoteHK(code) ==
    {[k |-> "raise", price |-> 0], [k |-> "empty", price |-> 0]}
        \cup (IF code \in ListedHK
              THEN {[k |-> "ok", price |-> x] : x \in Prices}
              ELSE {})

\* lines 156-171: daily close first; the range endpoint only if daily raised
PriceHK(daily, range) ==
    IF daily.k = "ok" THEN Some(daily.price)
    ELSE IF daily.k = "empty" THEN None
    ELSE IF range.k = "ok" THEN Some(range.price)
    ELSE None

\* _get_hk_stock_by_code(code): every dict it can return (it never raises)
GetHKStockByCode(code) ==
    LET c == Zfill(code, HKCodeWidth) IN
    {[k |-> "ok",
      info |-> Info(c, IF pr.k = "ok" THEN pr.name ELSE c, PriceHK(d, h))] :
        pr \in ProfileHK(c), d \in QuoteHK(c), h \in QuoteHK(c)}

\* stock_list[name.str.contains(query)], in cache order
MatchHK(rows, q) == SelectSeq(rows, LAMBDA r : Contains(r.name, q))

\* lines 218-236 of search_hk_stock, given the loader's outcome
CachePathHK(q, ld, fast) ==
    IF ld.st = "raise" \/ ld.rows = <<>>
    THEN {Resolved(None, ld.file, Some(ld), None, fast, "none")}
    ELSE LET matched == MatchHK(ld.rows, q) IN
         IF matched = <<>>
         THEN {Resolved(None, ld.file, Some(ld), None, fast, "none")}
         ELSE LET code == matched[1].code IN
              {IF r.k = "ok"
               THEN Resolved(Some(r.info), ld.file, Some(ld), Some(matched[1]),
                             fast, "ok")
               ELSE Resolved(Some(Info(code, matched[1].name, None)), ld.file,
                             Some(ld), Some(matched[1]), fast, "raise") :
                   r \in GetHKStockByCode(code)}

\* search_hk_stock(query): every outcome on cache file f at time t
SearchHKStock(q, f, t) ==
    LET direct == IF IsDigit(q) THEN GetHKStockByCode(q) ELSE {}
        fast   == IF IsDigit(q) THEN "raise" ELSE "skip"
    IN  {Resolved(Some(r.info), f, None, None, "ok", "none") :
             r \in {x \in direct : x.k = "ok"}}
        \cup (IF ~IsDigit(q) \/ (\E r \in direct : r.k = "raise")
              THEN UNION {CachePathHK(q, ld, fast) : ld \in LoadHKCache(f, t)}
              ELSE {})

-----------------------------------------------------------------------------
(* Orchestrator: search_stock (POST /api/search) *)

\* what get_a_dividend / get_hk_dividend can hand to search_stock:
\* (amount, dates, None) or (None, dates, error)
DividendOutcomes ==
    {[div |-> Some(5000000), dates |-> <<"2024-06-28", "2023-06-30">>, err |-> ""],
     [div |-> None, dates |-> <<"2020-06-30">>, err |-> "zero"],
     [div |-> None, dates |-> <<>>, err |-> "no record"]}

\* what get_hkd_cny_rate can hand to search_stock
RateOutcomes == {9240000, 9187000}

Err(tag, q, err) == [tag |-> tag, q |-> q, err |-> err]

\* lines 395-405: the result shell
Shell(q, market) ==
    [symbol            |-> q,
     name              |-> <<>>,
     market            |-> market,
     current_price     |-> None,
     dividend          |-> None,
     dividend_dates    |-> <<>>,
     dividend_currency |-> IF market = "A" THEN "CNY" ELSE "HKD",
     hkd_rate          |-> None,
     errors            |-> <<>>]

MergeInfo_KeepSymbol(result, info) ==
    [result EXCEPT !.name = info.name, !.current_price = info.current_price]

\* result.update(info)
MergeInfo(result, info) ==
    [result EXCEPT !.symbol = info.symbol, !.name = info.name,
                   !.current_price = info.current_price]

\* lines 416-421 / 435-440: merge the dividend outcome
MergeDividend(result, d, tag) ==
    IF IsSome(d.div)
    THEN [result EXCEPT !.dividend = d.div, !.dividend_dates = d.dates]
    ELSE [result EXCEPT !.dividend_dates = d.dates,
                        !.errors = Append(@, Err(tag, <<>>, d.err))]

NoCalls == [divA |-> None, divHK |-> None, rate |-> FALSE]

Answer(status, json, fA, fHK, res, calls) ==
    [status |-> status, json |-> json, fileA |-> fA, fileHK |-> fHK,
     res |-> res, calls |-> calls]

\* lines 408-421: the market-A branch, given the resolver's outcome
SearchStockA(q, r, fHK) ==
    LET result == IF IsSome(r.info)
                  THEN MergeInfo(Shell(q, "A"), Get(r.info))
                  ELSE [Shell(q, "A") EXCEPT
                            !.errors = Append(@, Err("a_not_found", q, ""))]
    IN  {Answer(200, MergeDividend(result, d, "a_dividend_failed"), r.file, fHK,
                Some(r), [NoCalls EXCEPT !.divA = Some(result.symbol)]) :
             d \in DividendOutcomes}

\* lines 423-442: the HK branch, given the resolver's outcome
SearchStockHK(q, r, fA) ==
    IF ~IsSome(r.info)
    THEN {Answer(200, [error |-> Err("hk_not_found", q, ""), errors |-> <<>>],
                 fA, r.file, Some(r), NoCalls)}
    ELSE LET result == MergeInfo(Shell(q, "HK"), Get(r.info)) IN
         {Answer(200,
                 [MergeDividend(result, d, "hk_dividend_failed") EXCEPT
                      !.hkd_rate = Some(x)],
                 fA, r.file, Some(r),
                 [NoCalls EXCEPT !.divHK = Some(result.symbol), !.rate = TRUE]) :
              d \in DividendOutcomes, x \in RateOutcomes}

\* search_stock(): every answer to a request {query: raw, market}
SearchStock(raw, market, fA, fHK, t) ==
    LET q == Strip(raw) IN
    IF q = <<>>
    THEN {Answer(400, [error |-> Err("empty_query", <<>>, "")], fA, fHK, None, NoCalls)}
    ELSE IF market = "A"
         THEN UNION {SearchStockA(q, r, fHK) : r \in SearchAStock(q, fA, t)}
         ELSE UNION {SearchStockHK(q, r, fA) : r \in SearchHKStock(q, fHK, t)}

-----------------------------------------------------------------------------
(* The request-per-call server: one /api/search request at a time *)

InitSearch ==
    /\ now = 0
    /\ fileA \in {AbsentFile} \cup {WriteCache(s, 0) : s \in SnapshotsA}
    /\ fileHK \in {AbsentFile} \cup {WriteCache(s, 0) : s \in SnapshotsHK}
    /\ out = None

\* the request as answered: the request, the files and time it found, the answer
Served(raw, market, a) ==
    Some([raw |-> raw, query |-> Strip(raw), market |-> market,
          preA |-> fileA, preHK |-> fileHK, at |-> now, ans |-> a])

\* POST /api/search {query: raw, market: "A"}
SearchA ==
    /\ out = None
    /\ \E raw \in RawQueriesA :
         \E a \in SearchStock(raw, "A", fileA, fileHK, now) :
            /\ out' = Served(raw, "A", a)
            /\ fileA' = a.fileA
            /\ fileHK' = a.fileHK
    /\ UNCHANGED <<now, rateVars, divVars, watchVars, raceVars>>

\* POST /api/search {query: raw, market: "HK"}
SearchHK ==
    /\ out = None
    /\ \E raw \in RawQueriesHK :
         \E a \in SearchStock(raw, "HK", fileA, fileHK, now) :
            /\ out' = Served(raw, "HK", a)
            /\ fileA' = a.fileA
            /\ fileHK' = a.fileHK
    /\ UNCHANGED <<now, rateVars, divVars, watchVars, raceVars>>

\* the response is sent and the handler returns
Return ==
    /\ out # None
    /\ out' = None
    /\ UNCHANGED <<now, fileA, fileHK, rateVars, divVars, watchVars, raceVars>>

\* time passes between requests
Tick ==
    /\ out = None
    /\ now < MaxTicks * TickSeconds
    /\ now' = now + TickSeconds
    /\ UNCHANGED <<fileA, fileHK, out, rateVars, divVars, watchVars, raceVars>>

-----------------------------------------------------------------------------
(* Properties of the cache loaders and of /api/search *)

Answered == out # None
Req == Get(out)
Ans == Get(out).ans
Json == Get(out).ans.json

\* the request went through a resolver, and the resolver called the cache loader
LoaderCalled == Answered /\ IsSome(Ans.res) /\ IsSome(Get(Ans.res).load)
Load == Get(Get(Ans.res).load)
PreFile == IF Req.market = "A" THEN Req.preA ELSE Req.preHK
PostFile == IF Req.market = "A" THEN fileA ELSE fileHK

\* the file was there and younger than 24 h when the loader was called
PreFresh == PreFile.exists /\ Req.at - PreFile.mtime < 24 * 3600

FreshReuse ==
    PreFresh => /\ Load.st = "ret"
                /\ Load.rows = PreFile.rows
                /\ Load.calls = <<>>
                /\ ~Load.wrote
                /\ PostFile = PreFile

\* C1 (as stated): a call on a file younger than 24 h returns its contents with no
\* upstream snapshot call and no write; a call on an absent or older file makes
\* exactly one upstream snapshot call.
C1_ExactlyOneRefetchCall ==
    LoaderCalled => /\ FreshReuse
                    /\ ~PreFresh => Len(Load.calls) = 1

\* C1 (amended): as above, except that the HK loader makes one call to the primary
\* snapshot endpoint and a second one, to the alternate endpoint, exactly when the
\* primary gave no usable table.
C1_RefetchCalls ==
    LoaderCalled =>
        /\ FreshReuse
        /\ ~PreFresh =>
            /\ Req.market = "A" => Len(Load.calls) = 1
            /\ Req.market = "HK" =>
                /\ Len(Load.calls) \in {1, 2}
                /\ Len(Load.calls) = 2 <=> Load.calls[1] # "ok"
            /\ Load.wrote <=> Load.calls[Len(Load.calls)] = "ok"
            /\ Load.wrote => PostFile = [exists |-> TRUE, mtime |-> Req.at,
                                         rows |-> Load.rows]

\* a file exactly 24 h old was found and refetched
C1_Witness_StaleRefetched ==
    /\ LoaderCalled
    /\ PreFile.exists
    /\ Req.at - PreFile.mtime = 24 * 3600
    /\ Load.wrote

\* the HK loader, on a stale file, called both endpoints
C1_Witness_TwoCalls ==
    /\ LoaderCalled
    /\ Req.market = "HK"
    /\ PreFile.exists
    /\ ~PreFresh
    /\ Len(Load.calls) = 2

ResultFields ==
    {"symbol", "name", "market", "current_price", "dividend", "dividend_dates",
     "dividend_currency", "hkd_rate", "errors"}

\* the rows the resolver searched: the loader's table, or (loader not called)
\* the cache file as it is
CacheRows ==
    IF LoaderCalled THEN (IF Load.st = "ret" THEN Load.rows ELSE <<>>)
    ELSE PreFile.rows

\* C2: an HK request whose query matches no cached name and is not the code of an
\* existing security gets the request-level error object, no QueryResult field,
\* and neither get_hk_dividend nor get_hkd_cny_rate is called.
C2_HKNotFoundShortCircuit ==
    (/\ Answered
     /\ Req.market = "HK"
     /\ Req.query # <<>>
     /\ \A i \in 1..Len(CacheRows) : ~Contains(CacheRows[i].name, Req.query)
     /\ Zfill(Req.query, 5) \notin ListedHK)
    => /\ "error" \in DOMAIN Json
       /\ DOMAIN Json \cap {"symbol", "name", "current_price", "dividend",
                            "hkd_rate"} = {}
       /\ Ans.calls.divHK = None
       /\ ~Ans.calls.rate

NotFoundErrors(errors) == SelectSeq(errors, LAMBDA e : e.tag = "a_not_found")

\* C3: market A. Not found: exactly one 'not found' message, get_a_dividend called
\* with the stripped query, a full QueryResult with symbol = the query. Found:
\* get_a_dividend called with the resolved symbol, no 'not found' message.
C3_ANotFoundStillLooksUpDividend ==
    (Answered /\ Req.market = "A" /\ IsSome(Ans.res)) =>
        LET r == Get(Ans.res) IN
        /\ ~IsSome(r.info) =>
            /\ Len(NotFoundErrors(Json.errors)) = 1
            /\ Json.errors[1] = [tag |-> "a_not_found", q |-> Req.query, err |-> ""]
            /\ Ans.calls.divA = Some(Req.query)
            /\ Ans.status = 200
            /\ DOMAIN Json = ResultFields
            /\ Json.symbol = Req.query
        /\ IsSome(r.info) =>
            /\ Ans.calls.divA = Some(Get(r.info).symbol)
            /\ Json.symbol = Get(r.info).symbol
            /\ NotFoundErrors(Json.errors) = <<>>

\* a not-found market-A request that still got a dividend for the raw query
C3_Witness_NotFoundWithDividend ==
    /\ Answered
    /\ Req.market = "A"
    /\ IsSome(Ans.res)
    /\ ~IsSome(Get(Ans.res).info)
    /\ IsSome(Json.dividend)
    /\ Req.raw # Req.query

\* a resolved market-A request whose symbol is not what was typed
C3_Witness_Resolved ==
    /\ Answered
    /\ Req.market = "A"
    /\ IsSome(Ans.res)
    /\ IsSome(Get(Ans.res).info)
    /\ Ans.calls.divA # Some(Req.query)

\* indices of the rows that match q by code or by name
HitsByCodeOrName(rows, code, q) ==
    {i \in 1..Len(rows) : rows[i].code = code \/ Contains(rows[i].name, q)}

First(S) == CHOOSE i \in S : \A j \in S : i <= j

ViaCache == Answered /\ IsSome(Ans.res) /\ Get(Ans.res).fast # "ok"

\* C7: market A through the cache: not found iff no row has code = query or name
\* containing it; else the first such row, with its code and its cached name
\* whatever the live lookup did, and no price when the live lookup failed.
C7_AResolveThroughCache ==
    (ViaCache /\ Req.market = "A") =>
        LET r    == Get(Ans.res)
            hits == HitsByCodeOrName(CacheRows, Req.query, Req.query)
        IN  /\ ~IsSome(r.info) <=> hits = {}
            /\ hits # {} =>
                /\ Get(r.info).symbol = CacheRows[First(hits)].code
                /\ Get(r.info).name = CacheRows[First(hits)].name
                /\ r.match = Some(CacheRows[First(hits)])
                /\ r.live = "raise" => Get(r.info).current_price = None
                /\ Json.symbol = CacheRows[First(hits)].code
                /\ Json.name = CacheRows[First(hits)].name

\* a digits-only query whose direct lookup failed and that matched a row by code
C7_Witness_CodeMatchAfterFastFail ==
    /\ ViaCache
    /\ Req.market = "A"
    /\ Get(Ans.res).fast = "raise"
    /\ IsSome(Get(Ans.res).match)
    /\ Get(Get(Ans.res).match).code = Req.query

\* a name query matching two rows, answered with the first in cache order,
\* with a live price
C7_Witness_FirstOfTwo ==
    /\ ViaCache
    /\ Req.market = "A"
    /\ Cardinality(HitsByCodeOrName(CacheRows, Req.query, Req.query)) = 2
    /\ Get(Ans.res).live = "ok"
    /\ IsSome(Json.current_price)

\* C8: market HK through the cache has the shape of market A: a row matches when
\* its code equals the zero-padded query or its name contains the query, and the
\* returned name is the cached one.
C8_HKResolveThroughCache ==
    (ViaCache /\ Req.market = "HK") =>
        LET r    == Get(Ans.res)
            hits == HitsByCodeOrName(CacheRows, Zfill(Req.query, 5), Req.query)
        IN  /\ ~IsSome(r.info) <=> hits = {}
            /\ hits # {} =>
                /\ Get(r.info).symbol = CacheRows[First(hits)].code
                /\ Get(r.info).name = CacheRows[First(hits)].name

-----------------------------------------------------------------------------
(* Rate lookup: get_hkd_cny_rate *)

MaxFxRows == 2
MaxBocCols == 2

\* 0.924
DefaultRate == 9240000

SeqsUpTo(S, n) == UNION {[1..k -> S] : k \in 0..n}

\* a cell of a quote row: whether its text mentions HKD / 港元 / 港币, and what
\* float(v) gives (None: float raises)
FxCell(hkd, val) == [hkd |-> hkd, val |-> val]

\* cells: the label "HKD/CNY", the label "USD/CNY", 0.9241234, 7.1234567
LabelHKD == FxCell(TRUE, None)
LabelUSD == FxCell(FALSE, None)
InRange == FxCell(FALSE, Some(9241234))
OutOfRange == FxCell(FALSE, Some(71234567))

\* the rows a quote table is made of
FxRows ==
    {<<LabelHKD, InRange>>, <<LabelHKD, OutOfRange, InRange>>, <<LabelHKD, OutOfRange>>,
     <<LabelHKD>>, <<LabelUSD, InRange>>, <<InRange, LabelHKD>>}

\* ak.fx_spot_quote(): an exception, None, or a table (possibly empty)
SpotOutcomes ==
    {[k |-> "raise", t |-> <<>>], [k |-> "none", t |-> <<>>]}
        \cup {[k |-> "table", t |-> t] : t \in SeqsUpTo(FxRows, MaxFxRows)}

\* a column of the bank table: its header (中间价 / 基准价 / another) and the
\* last row's value after pd.to_numeric(errors='coerce') (None: NaN):
\* 92.4123456 per 100, 5.0
BocCols ==
    {[hdr |-> h, last |-> v] :
        h \in {"mid", "bench", "other"}, v \in {None, Some(924123456), Some(50000000)}}

\* ak.currency_boc_sina(): an exception, None or empty, or a table
BocOutcomes ==
    {[k |-> "raise", t |-> <<>>], [k |-> "none", t |-> <<>>]}
        \cup {[k |-> "table", t |-> t] : t \in SeqsUpTo(BocCols, MaxBocCols)}

\* how a block of code ends: it returns v, falls through to what follows it,
\* or raises
Returns(v) == [k |-> "return", v |-> v]
Fall == [k |-> "fall", v |-> 0]
Raised == [k |-> "raise", v |-> 0]

Catch_Propagate(r) == r

\* try: ... except Exception: pass
Catch(r) == IF r.k = "raise" THEN Fall ELSE r

\* 'HKD' in row_str or '港元' in row_str or '港币' in row_str
RowMentionsHKD(row) == \E i \in 1..Len(row) : row[i].hkd

\* the cells for which float(v) succeeds and lies in [0.5, 1.5], in order
UsableCells(row) ==
    SelectSeq(row, LAMBDA c : /\ IsSome(c.val)
                              /\ 5000000 <= Get(c.val)
                              /\ Get(c.val) <= 15000000)

\* lines 41-50: the scan of the quote rows
RECURSIVE ScanRows(_)
ScanRows(rows) ==
    IF rows = <<>> THEN Fall
    ELSE IF RowMentionsHKD(Head(rows)) /\ UsableCells(Head(rows)) # <<>>
         THEN Returns(RoundDiv6(Get(UsableCells(Head(rows))[1].val), 1))
         ELSE ScanRows(Tail(rows))

\* lines 39-50, inside the try
Method1Body(o) ==
    IF o.k = "raise" THEN Raised
    ELSE IF o.k = "none" \/ o.t = <<>> THEN Fall
    ELSE ScanRows(o.t)

\* lines 58-62: the scan of the bank table's columns
RECURSIVE ScanCols(_)
ScanCols(cols) ==
    IF cols = <<>> THEN Fall
    ELSE LET c == Head(cols) IN
         IF c.hdr \in {"mid", "bench"} /\ IsSome(c.last) /\ Get(c.last) > 100000000
         THEN Returns(RoundDiv6(Get(c.last), 100))
         ELSE ScanCols(Tail(cols))

\* lines 56-62, inside the try
Method2Body(o) ==
    IF o.k = "raise" THEN Raised
    ELSE IF o.k = "none" \/ o.t = <<>> THEN Fall
    ELSE ScanCols(o.t)

\* get_hkd_cny_rate in progress: where it is, the local df (the last table
\* upstream gave; dead, and dropped, once method 1 is left), how the first
\* source answered, the value returned
FxState(pc, df, first, ret) == [pc |-> pc, df |-> df, first |-> first, ret |-> ret]

NoTable == [k |-> "", t |-> <<>>]

InitRate == fx = FxState("method1", NoTable, "", None)

\* lines 38-52: method 1, from the call of ak.fx_spot_quote
RateMethod1 ==
    /\ fx.pc = "method1"
    /\ \E o \in SpotOutcomes :
        LET r == Catch(Method1Body(o)) IN
        fx' = IF r.k = "return" THEN FxState("done", o, o.k, Some(r.v))
              ELSE IF r.k = "raise" THEN FxState("raised", o, o.k, None)
              ELSE FxState("method2", NoTable, o.k, None)
    /\ UNCHANGED <<searchVars, divVars, watchVars, raceVars>>

\* lines 55-66: method 2, from the call of ak.currency_boc_sina, and the default
RateMethod2 ==
    /\ fx.pc = "method2"
    /\ \E o \in BocOutcomes :
        LET r == Catch(Method2Body(o)) IN
        fx' = IF r.k = "return" THEN FxState("done", o, fx.first, Some(r.v))
              ELSE IF r.k = "raise" THEN FxState("raised", o, fx.first, None)
              ELSE FxState("done", o, fx.first, Some(DefaultRate))
    /\ UNCHANGED <<searchVars, divVars, watchVars, raceVars>>

\* C4: get_hkd_cny_rate never raises and always returns a number, whatever the two
\* sources do; when both raise it returns exactly 0.924.
C4_RateNeverFails ==
    /\ fx.pc # "raised"
    /\ fx.pc = "done" =>
        /\ IsSome(fx.ret)
        /\ Get(fx.ret) \in Nat
        /\ Get(fx.ret) > 0
        /\ (fx.first = "raise" /\ fx.df.k = "raise") => fx.ret = Some(9240000)

\* both live sources raised and the call has returned
C4_Witness_BothRaise ==
    /\ fx.pc = "done"
    /\ fx.first = "raise"
    /\ fx.df.k = "raise"

\* the first source gave an HKD row with no usable value, the second a table
C4_Witness_NoUsableValue ==
    /\ fx.pc = "done"
    /\ fx.first = "table"
    /\ fx.df.k = "table"
    /\ fx.ret = Some(9240000)

-----------------------------------------------------------------------------
(* Market A dividends: get_a_dividend *)

MaxRows == 3
MaxDateRows == 3

Day == 24 * 3600

\* A history row, as far as get_a_dividend reads it:
\*   ann  column 0 after pd.to_datetime(errors='coerce'), seconds relative to
\*        today 00:00 (None: NaT)
\*   div  column 4, per 10 shares, units of 10^-7 (None: not a number)
\*   pay  column 7 after pd.to_datetime(errors='coerce') (None: NaT)
HistRow(ann, div, pay) == [ann |-> ann, div |-> div, pay |-> pay]

\* announcements 200, 365 and 400 days ago, or unparsable; 0, 3 or 5 per 10
\* shares; paid 30 days after the announcement; and one row whose amount is not
\* a number
AmountRows ==
    {HistRow(a, d, IF a = None THEN None ELSE Some(Get(a) + 30 * Day)) :
        a \in {None, Some(-200 * Day), Some(-365 * Day), Some(-400 * Day)},
        d \in {Some(0), Some(30000000), Some(50000000)}}
    \cup {HistRow(Some(-200 * Day), None, Some(-170 * Day))}

\* rows announced 500 days ago with 0 or 5 per 10 shares and any of three payment
\* dates, or none
DateRows ==
    {HistRow(Some(-500 * Day), d, p) :
        d \in {Some(0), Some(50000000)},
        p \in {None, Some(-480 * Day), Some(-300 * Day), Some(-120 * Day)}}

\* ak.stock_dividend_cninfo(symbol), and datetime.now() at the call (tod: seconds
\* since 00:00): an exception, None, or a table (possibly empty) with ncols
\* columns: the 11 documented ones, or fewer
Histories ==
    {[k |-> "raise", ncols |-> 0, rows |-> <<>>, tod |-> 0],
     [k |-> "none", ncols |-> 0, rows |-> <<>>, tod |-> 0]}
    \cup {[k |-> "table", ncols |-> 11, rows |-> r, tod |-> t] :
             t \in {0, 12 * 3600}, r \in SeqsUpTo(AmountRows, MaxRows)}
    \cup {[k |-> "table", ncols |-> n, rows |-> <<r>>, tod |-> 12 * 3600] :
             n \in {4, 5}, r \in AmountRows}
    \cup {[k |-> "table", ncols |-> 11, rows |-> r, tod |-> 12 * 3600] :
             r \in SeqsUpTo(DateRows, MaxDateRows)}

\* pd.to_numeric(df[div_col], errors='coerce').fillna(0)
Per10(row) == IF IsSome(row.div) THEN Get(row.div) ELSE 0

RECURSIVE SumPer10(_)
\* df[div_col].sum()
SumPer10(rows) == IF rows = <<>> THEN 0 ELSE Per10(Head(rows)) + SumPer10(Tail(rows))

InWindow_NoWindow(row, tod) == IsSome(row.ann)

\* df[date_col] >= datetime.now() - timedelta(days=365)  (NaT compares False)
InWindow(row, tod) == IsSome(row.ann) /\ Get(row.ann) >= tod - 365 * Day

\* df.head(2)
Head2(rows) == SubSeq(rows, 1, IF Len(rows) < 2 THEN Len(rows) ELSE 2)

\* .tail(2)
Tail2(rows) == SubSeq(rows, IF Len(rows) < 2 THEN 1 ELSE Len(rows) - 1, Len(rows))

\* [::-1]
RECURSIVE Reverse(_)
Reverse(s) == IF s = <<>> THEN <<>> ELSE Append(Reverse(Tail(s)), Head(s))

\* pd.Timestamp(v).strftime('%Y-%m-%d'): the calendar day, as a day number
IsoDate(ts) == ts \div Day

MapIsoDate(s) == [i \in 1..Len(s) |-> IsoDate(Get(s[i].pay))]

\* lines 278-286: the recent payment dates
RecentDates(rows, ncols) ==
    IF ncols > 7
    THEN LET cash == SelectSeq(rows, LAMBDA r : Per10(r) > 0)
             paid == SelectSeq(cash, LAMBDA r : IsSome(r.pay))
         IN  MapIsoDate(Reverse(Tail2(paid)))
    ELSE <<>>

DivResult(amount, dates, err) == [amount |-> amount, dates |-> dates, err |-> err]

\* get_a_dividend(symbol), given the history upstream returned.  The errors are
\* "无分红记录" (no_record), "数据列数异常" (bad_columns),
\* "近期现金分红金额为 0" (recent_zero) and str(e) (exception).
GetADividend(h) ==
    IF h.k = "raise" THEN DivResult(None, <<>>, "exception")
    ELSE IF h.k = "none" \/ h.rows = <<>> THEN DivResult(None, <<>>, "no_record")
    ELSE IF h.ncols < 5 THEN DivResult(None, <<>>, "bad_columns")
    ELSE LET dates  == RecentDates(h.rows, h.ncols)
             recent == SelectSeq(h.rows, LAMBDA r : InWindow(r, h.tod))
         IN  IF recent # <<>> /\ SumPer10(recent) > 0
             THEN DivResult(Some(RoundDiv6(SumPer10(recent), 10)), dates, "")
             ELSE IF SumPer10(Head2(h.rows)) > 0
                  THEN DivResult(Some(RoundDiv6(SumPer10(Head2(h.rows)), 10)), dates, "")
                  ELSE DivResult(None, dates, "recent_zero")

InitDiv ==
    /\ hist \in Histories
    /\ divOut = None

\* one call of get_a_dividend
CallGetADividend ==
    /\ divOut = None
    /\ divOut' = Some(GetADividend(hist))
    /\ UNCHANGED <<hist, searchVars, rateVars, watchVars, raceVars>>

Called == divOut # None
Got == Get(divOut)

\* the claims are about a non-empty history with at least 5 columns
GoodHistory == hist.k = "table" /\ hist.rows # <<>> /\ hist.ncols >= 5

\* column 4 of row i, as a number
Amount(i) == IF hist.rows[i].div = None THEN 0 ELSE hist.rows[i].div[1]

RECURSIVE SumOver(_)
SumOver(S) ==
    IF S = {} THEN 0
    ELSE LET i == CHOOSE x \in S : TRUE IN Amount(i) + SumOver(S \ {i})

\* rows announced no more than 365 days before now
WindowRows ==
    {i \in 1..Len(hist.rows) :
        /\ hist.rows[i].ann # None
        /\ hist.tod - hist.rows[i].ann[1] <= 365 * 24 * 3600}

FirstTwoRows == {i \in 1..Len(hist.rows) : i <= 2}

\* C5: the amount is the trailing-365-day sum of column 4 over 10 when that is
\* positive, else the sum over the first two rows over 10 when that is positive,
\* else absent with the 'recent zero' error; all amounts 0 gives no dates.
C5_TrailingSumThenFirstTwo ==
    (Called /\ GoodHistory) =>
        LET w == SumOver(WindowRows)
            f == SumOver(FirstTwoRows)
        IN  /\ w > 0 => /\ IsSome(Got.amount)
                        /\ 10 * Get(Got.amount) = w
                        /\ Got.err = ""
            /\ (w <= 0 /\ f > 0) => /\ IsSome(Got.amount)
                                    /\ 10 * Get(Got.amount) = f
                                    /\ Got.err = ""
            /\ (w <= 0 /\ f <= 0) => /\ Got.amount = None
                                     /\ Got.err = "recent_zero"
            /\ (\A i \in 1..Len(hist.rows) : Amount(i) = 0) => Got.dates = <<>>

\* rows 200 and 400 days old with 5 and 3 per 10 shares give 0.5
C5_Witness_WindowOnly ==
    /\ Called
    /\ hist.ncols = 11
    /\ Len(hist.rows) = 2
    /\ hist.rows[1].ann = Some(-200 * 24 * 3600) /\ hist.rows[1].div = Some(50000000)
    /\ hist.rows[2].ann = Some(-400 * 24 * 3600) /\ hist.rows[2].div = Some(30000000)
    /\ Got.amount = Some(5000000)

\* no row in the window, three rows: the first two are summed, the third is not
C5_Witness_Fallback ==
    /\ Called
    /\ GoodHistory
    /\ Len(hist.rows) = 3
    /\ WindowRows = {}
    /\ \A i \in 1..3 : Amount(i) > 0
    /\ IsSome(Got.amount)

\* the parsable payment days of the rows with a positive amount
PaidDays ==
    {i \in 1..Len(hist.rows) : Amount(i) > 0 /\ hist.rows[i].pay # None}

PayDay(i) == hist.rows[i].pay[1] \div (24 * 3600)

\* i is among the two latest of PaidDays: fewer than 2 rows are paid later
\* (or on the same day and earlier in the list)
Later(j, i) == PayDay(j) > PayDay(i) \/ (PayDay(j) = PayDay(i) /\ j < i)

LatestTwo == {i \in PaidDays : Cardinality({j \in PaidDays : Later(j, i)}) < 2}

\* C6: the recent dates are at most 2, are the 2 latest parsable payment dates of
\* the rows with a positive amount, most recent first, whatever the row order.
C6_LatestTwoPaymentDates ==
    (Called /\ GoodHistory /\ hist.ncols > 7) =>
        /\ Len(Got.dates) <= 2
        /\ Len(Got.dates) = Cardinality(LatestTwo)
        /\ \A i \in LatestTwo : \E n \in 1..Len(Got.dates) : Got.dates[n] = PayDay(i)
        /\ \A n \in 1..Len(Got.dates) : \E i \in LatestTwo : Got.dates[n] = PayDay(i)
        /\ Len(Got.dates) = 2 => Got.dates[1] >= Got.dates[2]

-----------------------------------------------------------------------------
(* Watchlist: load_data, save_data, add_stock, update_stock, delete_stock *)

NumReq == 2
MaxWatchTicks == 1

Reqs == 1..NumReq

Stock(id, v, created, updated) ==
    [id |-> id, v |-> v, created_at |-> created, updated_at |-> updated]

\* the document on disk: absent, a complete JSON document, or opened for
\* writing and not written yet
Doc(state, stocks) == [state |-> state, stocks |-> stocks]

\* an item saved before the model starts
OldStock == Stock(500, "w", 0, None)

\* request bodies and ids in the URL
Payloads == {"x", "y"}
TargetIds == {500, 1000}

\* load_data(): the document, {'stocks': []} when the file is absent, or the
\* JSONDecodeError of json.load on a file opened for writing and still empty
LoadData(file) ==
    IF file.state = "absent" THEN Returns(<<>>)
    ELSE IF file.state = "ok" THEN Returns(file.stocks)
    ELSE Raised

\* str(int(datetime.now().timestamp() * 1000))
NewId(t) == t * 1000

Appended_Replace(stocks, stock) == <<stock>>

\* data['stocks'].append(stock)
Appended(stocks, stock) == Append(stocks, stock)

\* lines 472-476: update the first item with this id
RECURSIVE Updated(_, _, _, _)
Updated(stocks, id, v, t) ==
    IF stocks = <<>> THEN <<>>
    ELSE IF Head(stocks).id = id
         THEN <<[Head(stocks) EXCEPT !.v = v, !.updated_at = Some(t)]>> \o Tail(stocks)
         ELSE <<Head(stocks)>> \o Updated(Tail(stocks), id, v, t)

\* [s for s in data['stocks'] if s['id'] != stock_id]
RECURSIVE Deleted(_, _)
Deleted(stocks, id) ==
    IF stocks = <<>> THEN <<>>
    ELSE IF Head(stocks).id = id THEN Deleted(Tail(stocks), id)
         ELSE <<Head(stocks)>> \o Deleted(Tail(stocks), id)

Op(kind, id, v) == [kind |-> kind, id |-> id, v |-> v]

Active(r) == wreq[r].pc \in {"loaded", "saving"}

IdleReq ==
    [pc |-> "idle", op |-> Op("", 0, ""), data |-> <<>>,
     before |-> Doc("absent", <<>>), alone |-> TRUE]

\* request r has loaded the document and computed the one it will save; it is
\* alone as long as no other request is between its load and its save
Begun(r, op, data) ==
    [q \in Reqs |->
        IF q = r
        THEN [pc |-> "loaded", op |-> op, data |-> data,
              before |-> Doc("absent", <<>>),
              alone |-> \A o \in Reqs \ {r} : ~Active(o)]
        ELSE IF Active(q) THEN [wreq[q] EXCEPT !.alone = FALSE]
        ELSE wreq[q]]

\* load_data raised: the request fails (HTTP 500)
Failed(r, op) == [wreq EXCEPT ![r] = [IdleReq EXCEPT !.pc = "failed", !.op = op]]

InitWatch ==
    /\ now = 1
    /\ dataFile \in {Doc("absent", <<>>), Doc("ok", <<OldStock>>)}
    /\ wreq = [r \in Reqs |-> IdleReq]
    /\ lastSave = None

\* add_stock, lines 459-463: up to the call of save_data
AddStock(r) ==
    /\ wreq[r].pc = "idle"
    /\ \E v \in Payloads :
        LET ld == LoadData(dataFile)
            op == Op("add", NewId(now), v)
        IN  wreq' = IF ld.k = "raise" THEN Failed(r, op)
                    ELSE Begun(r, op, Appended(ld.v, Stock(NewId(now), v, now, None)))
    /\ UNCHANGED <<now, dataFile, lastSave, fileA, fileHK, out, rateVars, divVars,
                   raceVars>>

\* update_stock, lines 470-476: up to the call of save_data
UpdateStock(r) ==
    /\ wreq[r].pc = "idle"
    /\ \E id \in TargetIds :
        LET ld == LoadData(dataFile)
            op == Op("update", id, "z")
        IN  wreq' = IF ld.k = "raise" THEN Failed(r, op)
                    ELSE Begun(r, op, Updated(ld.v, id, "z", now))
    /\ UNCHANGED <<now, dataFile, lastSave, fileA, fileHK, out, rateVars, divVars,
                   raceVars>>

\* delete_stock, lines 483-484: up to the call of save_data
DeleteStock(r) ==
    /\ wreq[r].pc = "idle"
    /\ \E id \in TargetIds :
        LET ld == LoadData(dataFile)
            op == Op("delete", id, "")
        IN  wreq' = IF ld.k = "raise" THEN Failed(r, op)
                    ELSE Begun(r, op, Deleted(ld.v, id))
    /\ UNCHANGED <<now, dataFile, lastSave, fileA, fileHK, out, rateVars, divVars,
                   raceVars>>

\* save_data, line 29: open(DATA_FILE, 'w') truncates the file
SaveOpen(r) ==
    /\ wreq[r].pc = "loaded"
    /\ wreq' = [wreq EXCEPT ![r].pc = "saving", ![r].before = dataFile]
    /\ dataFile' = Doc("truncated", <<>>)
    /\ UNCHANGED <<now, lastSave, fileA, fileHK, out, rateVars, divVars, raceVars>>

\* save_data, line 30, and the handler's return of success
SaveWrite(r) ==
    /\ wreq[r].pc = "saving"
    /\ dataFile' = Doc("ok", wreq[r].data)
    /\ wreq' = [wreq EXCEPT ![r].pc = "done"]
    /\ lastSave' = Some([op |-> wreq[r].op, before |-> wreq[r].before,
                         after |-> wreq[r].data, alone |-> wreq[r].alone])
    /\ UNCHANGED <<now, fileA, fileHK, out, rateVars, divVars, raceVars>>

\* the clock moves on
WatchTick ==
    /\ now <= MaxWatchTicks
    /\ now' = now + 1
    /\ UNCHANGED <<watchVars, fileA, fileHK, out, rateVars, divVars, raceVars>>

FirstWithId(stocks, id) ==
    IF \E i \in 1..Len(stocks) : stocks[i].id = id
    THEN {CHOOSE i \in 1..Len(stocks) :
            /\ stocks[i].id = id
            /\ \A j \in 1..(i - 1) : stocks[j].id # id}
    ELSE {}

\* the saved document is the replaced one with the operation applied
Reflected(op, before, after) ==
    CASE op.kind = "add" ->
            /\ Len(after) = Len(before) + 1
            /\ \A i \in 1..Len(before) : after[i] = before[i]
            /\ after[Len(after)].id = op.id
            /\ after[Len(after)].v = op.v
      [] op.kind = "update" ->
            /\ Len(after) = Len(before)
            /\ \A i \in 1..Len(before) :
                IF i \in FirstWithId(before, op.id)
                THEN /\ after[i].id = op.id
                     /\ after[i].v = op.v
                     /\ after[i].updated_at # None
                     /\ after[i].created_at = before[i].created_at
                ELSE after[i] = before[i]
      [] op.kind = "delete" ->
            after = SelectSeq(before, LAMBDA s : s.id # op.id)

\* C10, one at a time: a mutation that ran with no other mutation between its
\* load and its save replaced a complete document by that document with the
\* add, update or delete applied.
C10_AloneIsReflected ==
    (lastSave # None /\ Get(lastSave).alone) =>
        /\ Get(lastSave).before.state # "truncated"
        /\ Reflected(Get(lastSave).op, Get(lastSave).before.stocks,
                     Get(lastSave).after)

\* C10, interleaved: two adds both returned success and the document holds the
\* item of only one of them
C10_Witness_LostUpdate ==
    \E r1, r2 \in Reqs :
        /\ r1 # r2
        /\ wreq[r1].pc = "done" /\ wreq[r1].op.kind = "add"
        /\ wreq[r2].pc = "done" /\ wreq[r2].op.kind = "add"
        /\ wreq[r1].op.v # wreq[r2].op.v
        /\ dataFile.state = "ok"
        /\ \A i \in 1..Len(dataFile.stocks) : dataFile.stocks[i].v # wreq[r1].op.v
        /\ \E i \in 1..Len(dataFile.stocks) : dataFile.stocks[i].v = wreq[r2].op.v

\* two mutations, one after the other, both in the document
C10_Witness_Sequential ==
    \E r1, r2 \in Reqs :
        /\ r1 # r2
        /\ wreq[r1].pc = "done" /\ wreq[r1].alone /\ wreq[r1].op.kind = "add"
        /\ wreq[r2].pc = "done" /\ wreq[r2].alone /\ wreq[r2].op.kind = "update"
        /\ wreq[r2].op.id = wreq[r1].op.id
        /\ lastSave # None /\ Get(lastSave).op.kind = "update"
        /\ \E i \in 1..Len(dataFile.stocks) :
            dataFile.stocks[i].id = wreq[r1].op.id /\ dataFile.stocks[i].v = "z"

-----------------------------------------------------------------------------
(* The cache loaders under concurrent requests (Flask serves requests in       *)
(* threads): _load_a_cache and _load_hk_cache one system call at a time.       *)
(* A cache document reaches the disk in NumChunks buffer flushes; a document   *)
(* is named by who wrote it: 0 the snapshot already on disk, r the snapshot    *)
(* request r fetched; -1 is a hole left by a write past the end of the file.   *)

NumRacers == 2
NumChunks == 2

Racers == 1..NumRacers

CFile(exists, mtime, chunks) == [exists |-> exists, mtime |-> mtime, chunks |-> chunks]

WholeDoc(id) == [i \in 1..NumChunks |-> id]

\* json.load succeeds: the file holds one whole document
Complete(chunks) ==
    /\ Len(chunks) = NumChunks
    /\ chunks[1] >= 0
    /\ \A i \in 1..NumChunks : chunks[i] = chunks[1]

\* write(2) of one chunk at offset i - 1 of a file that may have been truncated
\* by another open(path, 'w') since
PutChunk(chunks, i, id) ==
    [j \in 1..(IF Len(chunks) > i THEN Len(chunks) ELSE i) |->
        IF j = i THEN id ELSE IF j <= Len(chunks) THEN chunks[j] ELSE -1]

Proc(pc, ep, off, ret, doc) == [pc |-> pc, ep |-> ep, off |-> off, ret |-> ret, doc |-> doc]

InitRace ==
    /\ now = MaxTicks * TickSeconds
    /\ rmarket \in {"A", "HK"}
    /\ cfile \in {CFile(FALSE, 0, <<>>), CFile(TRUE, 0, WholeDoc(0)),
                  CFile(TRUE, now, WholeDoc(0))}
    /\ procs = [r \in Racers |-> Proc("exists", 1, 0, "", <<>>)]

\* lines 73 / 181: os.path.exists(path)
RaceExists(r) ==
    /\ procs[r].pc = "exists"
    /\ procs' = [procs EXCEPT ![r].pc = IF cfile.exists THEN "stat" ELSE "fetch"]
    /\ UNCHANGED <<cfile, rmarket, searchVars, rateVars, divVars, watchVars>>

\* lines 74-75 / 182-183: age = time.time() - os.path.getmtime(path); age < CACHE_TTL
RaceStat(r) ==
    /\ procs[r].pc = "stat"
    /\ procs' = [procs EXCEPT
                    ![r].pc = IF now - cfile.mtime < CACHE_TTL THEN "read" ELSE "fetch"]
    /\ UNCHANGED <<cfile, rmarket, searchVars, rateVars, divVars, watchVars>>

\* lines 76-77 / 184-185: open, json.load: the table, or JSONDecodeError
RaceRead(r) ==
    /\ procs[r].pc = "read"
    /\ procs' = [procs EXCEPT
                    ![r].pc = "done",
                    ![r].ret = IF Complete(cfile.chunks) THEN "read" ELSE "decode_error",
                    ![r].doc = cfile.chunks]
    /\ UNCHANGED <<cfile, rmarket, searchVars, rateVars, divVars, watchVars>>

\* lines 79 / 188-199: one upstream snapshot call
RaceFetch(r) ==
    /\ procs[r].pc = "fetch"
    /\ \E k \in {"ok", "fail"} :
        procs' = [procs EXCEPT ![r] =
            IF k = "ok" THEN [@ EXCEPT !.pc = "open"]
            ELSE IF rmarket = "A" THEN [@ EXCEPT !.pc = "done", !.ret = "raise"]
            ELSE IF @.ep = 1 THEN [@ EXCEPT !.ep = 2]
            ELSE [@ EXCEPT !.pc = "done", !.ret = "empty"]]
    /\ UNCHANGED <<cfile, rmarket, searchVars, rateVars, divVars, watchVars>>

\* lines 82 / 194: open(path, 'w') creates or truncates the file
RaceOpen(r) ==
    /\ procs[r].pc = "open"
    /\ cfile' = CFile(TRUE, now, <<>>)
    /\ procs' = [procs EXCEPT ![r].pc = "write", ![r].off = 0]
    /\ UNCHANGED <<rmarket, searchVars, rateVars, divVars, watchVars>>

\* lines 83 / 195: json.dump, one buffer flush; after the last, close and return
RaceWrite(r) ==
    /\ procs[r].pc = "write"
    /\ cfile' = CFile(TRUE, now, PutChunk(cfile.chunks, procs[r].off + 1, r))
    /\ procs' = [procs EXCEPT ![r] =
            IF @.off + 1 = NumChunks
            THEN [@ EXCEPT !.pc = "done", !.off = NumChunks, !.ret = "fetched",
                           !.doc = WholeDoc(r)]
            ELSE [@ EXCEPT !.off = @ + 1]]
    /\ UNCHANGED <<rmarket, searchVars, rateVars, divVars, watchVars>>

\* C9: every write of the cache file is an atomic replace: a request that finds
\* the file valid and reads it never sees an empty or partly written document,
\* and once the writers are done the file holds one whole snapshot.
C9_AtomicReplace ==
    /\ \A r \in Racers : procs[r].ret # "decode_error"
    /\ (cfile.exists /\ \A r \in Racers : procs[r].pc \notin {"write"})
            => Complete(cfile.chunks)

-----------------------------------------------------------------------------
(* Specifications *)

IdleSearch == fileA = AbsentFile /\ fileHK = AbsentFile /\ out = None
IdleDiv == hist = [k |-> "none", ncols |-> 0, rows |-> <<>>, tod |-> 0] /\ divOut = None
IdleWatch ==
    /\ dataFile = Doc("absent", <<>>)
    /\ wreq = [r \in Reqs |-> IdleReq]
    /\ lastSave = None
IdleRace ==
    /\ rmarket = "A"
    /\ cfile = CFile(FALSE, 0, <<>>)
    /\ procs = [r \in Racers |-> Proc("exists", 1, 0, "", <<>>)]

\* /api/search, one request at a time
Init == InitSearch /\ InitRate /\ IdleDiv /\ IdleWatch /\ IdleRace
Next == SearchA \/ SearchHK \/ Return \/ Tick
Spec == Init /\ [][Next]_vars

\* one call of get_hkd_cny_rate
InitRateOnly == now = 0 /\ IdleSearch /\ InitRate /\ IdleDiv /\ IdleWatch /\ IdleRace
NextRate == RateMethod1 \/ RateMethod2
SpecRate == InitRateOnly /\ [][NextRate]_vars

\* one call of get_a_dividend on each history
InitDividend == now = 0 /\ IdleSearch /\ InitRate /\ InitDiv /\ IdleWatch /\ IdleRace
NextDividend == CallGetADividend
SpecDividend == InitDividend /\ [][NextDividend]_vars

\* the watchlist handlers, NumReq requests in threads
InitWatchlist == InitWatch /\ IdleSearch /\ InitRate /\ IdleDiv /\ IdleRace
NextWatchlist ==
    \/ \E r \in Reqs : AddStock(r)
    \/ \E r \in Reqs : UpdateStock(r)
    \/ \E r \in Reqs : DeleteStock(r)
    \/ \E r \in Reqs : SaveOpen(r)
    \/ \E r \in Reqs : SaveWrite(r)
    \/ WatchTick
SpecWatchlist == InitWatchlist /\ [][NextWatchlist]_vars

\* the cache loader of one market, NumRacers calls in threads
InitRacing == InitRace /\ IdleSearch /\ InitRate /\ IdleDiv /\ IdleWatch
NextRacing ==
    \/ \E r \in Racers : RaceExists(r)
    \/ \E r \in Racers : RaceStat(r)
    \/ \E r \in Racers : RaceRead(r)
    \/ \E r \in Racers : RaceFetch(r)
    \/ \E r \in Racers : RaceOpen(r)
    \/ \E r \in Racers : RaceWrite(r)
SpecRace == InitRacing /\ [][NextRacing]_vars

====
